---- MODULE Spec2Model ----
(***************************************************************************)
(* Model of the browser-driven verification scripts of web-katrain         *)
(* (src/verification/verify_*.py).  Each script is a straight-line         *)
(* Playwright program wrapped in `with sync_playwright()` and, in the      *)
(* later scripts, in try/except/finally.  A script is modelled as the      *)
(* sequence of its statements, each tagged with the source line and the    *)
(* block (region) it sits in; one interpreter executes the statements,     *)
(* with Python's exception semantics for the regions.  The environment     *)
(* (dev server, asynchronous rendering, file system) decides the outcome   *)
(* of every fallible Playwright call.                                      *)
(***************************************************************************)
EXTENDS Integers, Sequences, FiniteSets, TLC

VARIABLES
    phase,      \* "idle" | "running" | "exited": position of the process
    scen,       \* the script being run ("" when idle)
    pc,         \* index of the next statement of the script
    pending,    \* an exception is in flight while the finally block runs
    escaped,    \* an exception left the entry point (traceback, exit code 1)
    browser,    \* "none" | "open" | "closed": the launched browser
    page,       \* "none" | "open" | "closed": the page handle of the run
    ui,         \* what the page shows: "blank" | "main" | "modal"
    moves,      \* stones shown on the board
    theme,      \* board theme chosen in the settings overlay
    geom,       \* origin of the board container in the current layout
    board_box,  \* verify_nav.py:28: NoBox (None) or the resolved origin
    printed,    \* console output of the run
    trace,      \* statements executed in this run, with their outcome
    fs,         \* files of the output directory: set of [path, content]
    lastCap,    \* per path, the content of the last capture written to it
    runs,       \* number of runs started
    rid,        \* number of this run (0 when idle)
    bh,         \* the browser object the local `browser` refers to (0: none)
    ph,         \* the page object the local `page` refers to (0: none)
    handles,    \* browser/context/page objects created so far, by owner
    touched,    \* <<run, object>>: which run has called into which object
    saved       \* the locals of the other process, while this one runs

vars == <<phase, scen, pc, pending, escaped, browser, page, ui, moves, theme,
          geom, board_box, printed, trace, fs, lastCap, runs,
          rid, bh, ph, handles, touched, saved>>

\* Number of script runs (processes) started one after the other.
MaxRuns == 2

----------------------------------------------------------------------------
(* Statements *)

Stmt(ln, reg, op) ==
    [ln |-> ln, reg |-> reg, op |-> op, sel |-> "", val |-> "", to |-> 0,
     x |-> 0, y |-> 0, ifbox |-> FALSE]

Launch(ln, reg)          == Stmt(ln, reg, "launch")
NewContext(ln, reg)      == Stmt(ln, reg, "new_context")
NewPage(ln, reg)         == Stmt(ln, reg, "new_page")
Sleep(ln, reg, ms)       == [Stmt(ln, reg, "sleep") EXCEPT !.to = ms]
Goto(ln, reg, url, to)   == [Stmt(ln, reg, "goto") EXCEPT !.sel = url, !.to = to]
WaitFor(ln, reg, s, to)  == [Stmt(ln, reg, "wait") EXCEPT !.sel = s, !.to = to]
Click(ln, reg, s)        == [Stmt(ln, reg, "click") EXCEPT !.sel = s]
MouseClick(ln, reg, x, y) == [Stmt(ln, reg, "mouse") EXCEPT !.x = x, !.y = y]
BoundingBox(ln, reg, s)  == [Stmt(ln, reg, "bbox") EXCEPT !.sel = s]
BoxClick(ln, reg, dx, dy) ==
    [Stmt(ln, reg, "boxclick") EXCEPT !.x = dx, !.y = dy, !.ifbox = TRUE]
BoxSleep(ln, reg, ms)    == [Stmt(ln, reg, "sleep") EXCEPT !.to = ms, !.ifbox = TRUE]
SelectOption(ln, reg, s, v) == [Stmt(ln, reg, "select") EXCEPT !.sel = s, !.val = v]
Fill(ln, reg, s, v)      == [Stmt(ln, reg, "fill") EXCEPT !.sel = s, !.val = v]
Screenshot(ln, reg, p)   == [Stmt(ln, reg, "shot") EXCEPT !.sel = p]
Say(ln, reg, msg)        == [Stmt(ln, reg, "print") EXCEPT !.val = msg]
Close(ln, reg)           == Stmt(ln, reg, "close")

URL == "http://localhost:5173"

----------------------------------------------------------------------------
(* The six scripts *)

VerifyMistakes == <<
    Launch(6, "setup"),
    NewPage(7, "setup"),
    Goto(8, "setup", URL, 0),
    Click(11, "setup", "button[title='Teach Mode']"),
    Sleep(12, "setup", 1000),
    MouseClick(20, "setup", 400, 400),
    Sleep(21, "setup", 500),
    MouseClick(23, "setup", 450, 400),
    Sleep(24, "setup", 500),
    MouseClick(26, "setup", 400, 450),
    Sleep(27, "setup", 500),
    MouseClick(29, "setup", 450, 450),
    Sleep(30, "setup", 500),
    Click(33, "setup", "button[title='Settings']"),
    Sleep(34, "setup", 1000),
    Screenshot(35, "setup", "verification/settings_modal.png"),
    Click(36, "setup", "button:has-text('Done')"),
    Click(40, "setup", "button[title='Previous Mistake (Shift+N)']"),
    Sleep(41, "setup", 1000),
    Screenshot(43, "setup", "verification/mistakes_ui.png"),
    Close(45, "setup") >>

VerifyMistakesV2 == <<
    Launch(6, "setup"),
    NewPage(7, "setup"),
    Goto(8, "setup", URL, 0),
    WaitFor(11, "setup", "div.text-2xl", 0),
    Click(14, "setup", "button[title='Settings']"),
    Sleep(15, "setup", 1000),
    Screenshot(16, "setup", "verification/settings_modal.png"),
    Click(17, "setup", "button:has-text('Done')"),
    Screenshot(25, "setup", "verification/main_ui.png"),
    Close(27, "setup") >>

\* verify_mistakes_v3 with the browser closed in the except clause, ahead of
\* the diagnostic screenshot.
VerifyMistakesV3CloseFirst == <<
    Launch(6, "setup"),
    NewPage(7, "setup"),
    Goto(9, "try", URL, 60000),
    WaitFor(12, "try", "body", 0),
    WaitFor(15, "try", "text=Ka", 0),
    Click(18, "try", "button[title='Settings']"),
    Sleep(19, "try", 1000),
    Screenshot(20, "try", "verification/settings_modal.png"),
    Click(21, "try", "button:has-text('Done')"),
    Screenshot(24, "try", "verification/main_ui.png"),
    Say(27, "except", "Error"),
    Close(30, "except"),
    Screenshot(28, "except", "verification/error.png") >>

VerifyMistakesV3 == <<
    Launch(6, "setup"),
    NewPage(7, "setup"),
    Goto(9, "try", URL, 60000),
    WaitFor(12, "try", "body", 0),
    WaitFor(15, "try", "text=Ka", 0),
    Click(18, "try", "button[title='Settings']"),
    Sleep(19, "try", 1000),
    Screenshot(20, "try", "verification/settings_modal.png"),
    Click(21, "try", "button:has-text('Done')"),
    Screenshot(24, "try", "verification/main_ui.png"),
    Say(27, "except", "Error"),
    Screenshot(28, "except", "verification/error.png"),
    Close(30, "finally") >>

VerifyMistakesV4 == <<
    Launch(6, "setup"),
    NewContext(8, "setup"),
    NewPage(9, "setup"),
    Goto(11, "try", URL, 60000),
    WaitFor(14, "try", "#root", 0),
    Sleep(17, "try", 2000),
    Screenshot(18, "try", "verification/early_render.png"),
    Say(29, "except", "Error"),
    Screenshot(30, "except", "verification/error.png"),
    Close(32, "finally") >>

BoardSel == ".relative.bg-\\[\\#DCB35C\\]"

\* verify_navigation printing its success message ahead of the screenshot.
VerifyNavPrintEarly == <<
    Launch(6, "setup"),
    NewPage(7, "setup"),
    Sleep(10, "setup", 3000),
    Goto(13, "try", URL, 0),
    WaitFor(23, "try", BoardSel, 0),
    BoundingBox(28, "try", BoardSel),
    BoxClick(32, "try", 100, 100),
    BoxSleep(33, "try", 500),
    BoxClick(36, "try", 200, 100),
    BoxSleep(37, "try", 500),
    BoxClick(40, "try", 100, 200),
    BoxSleep(41, "try", 500),
    Click(44, "try", "text=Prev"),
    Sleep(45, "try", 500),
    Say(49, "try", "Screenshot taken"),
    Screenshot(48, "try", "verification/verification.png"),
    Say(52, "except", "Error"),
    Close(54, "finally") >>

VerifyNav == <<
    Launch(6, "setup"),
    NewPage(7, "setup"),
    Sleep(10, "setup", 3000),
    Goto(13, "try", URL, 0),
    WaitFor(23, "try", BoardSel, 0),
    BoundingBox(28, "try", BoardSel),
    BoxClick(32, "try", 100, 100),
    BoxSleep(33, "try", 500),
    BoxClick(36, "try", 200, 100),
    BoxSleep(37, "try", 500),
    BoxClick(40, "try", 100, 200),
    BoxSleep(41, "try", 500),
    Click(44, "try", "text=Prev"),
    Sleep(45, "try", 500),
    Screenshot(48, "try", "verification/verification.png"),
    Say(49, "try", "Screenshot taken"),
    Say(52, "except", "Error"),
    Close(54, "finally") >>

\* verify_settings without the page.fill of the range input (line 21).
VerifySettingsNoFill == <<
    Launch(43, "setup"),
    NewPage(44, "setup"),
    Goto(7, "itry", URL, 0),
    WaitFor(8, "itry", "text=Ka", 10000),
    Click(12, "itry", "button[title=\"Settings\"]"),
    WaitFor(15, "itry", "text=Board Theme", 0),
    SelectOption(18, "itry", "select", "dark"),
    Click(24, "itry", "text=Done"),
    MouseClick(30, "itry", 500, 300),
    Sleep(31, "itry", 500),
    MouseClick(32, "itry", 550, 300),
    Sleep(33, "itry", 500),
    Screenshot(36, "itry", "/home/jules/verification/settings_verification.png"),
    Say(37, "itry", "Screenshot taken"),
    Say(39, "iexcept", "Error in verify_settings"),
    Say(48, "except", "Error"),
    Close(50, "finally") >>

\* __main__ (lines 41-50) with the call of verify_settings(page) at line 46
\* inlined: "itry"/"iexcept" are the try/except of verify_settings, nested
\* in the try of __main__.
VerifySettings == <<
    Launch(43, "setup"),
    NewPage(44, "setup"),
    Goto(7, "itry", URL, 0),
    WaitFor(8, "itry", "text=Ka", 10000),
    Click(12, "itry", "button[title=\"Settings\"]"),
    WaitFor(15, "itry", "text=Board Theme", 0),
    SelectOption(18, "itry", "select", "dark"),
    Fill(21, "itry", "input[type=\"range\"]", "5"),
    Click(24, "itry", "text=Done"),
    MouseClick(30, "itry", 500, 300),
    Sleep(31, "itry", 500),
    MouseClick(32, "itry", 550, 300),
    Sleep(33, "itry", 500),
    Screenshot(36, "itry", "/home/jules/verification/settings_verification.png"),
    Say(37, "itry", "Screenshot taken"),
    Say(39, "iexcept", "Error in verify_settings"),
    Say(48, "except", "Error"),
    Close(50, "finally") >>

Scenarios == {"verify_mistakes", "verify_mistakes_v2", "verify_mistakes_v3",
              "verify_mistakes_v4", "verify_nav", "verify_settings"}

Script(s) ==
    CASE s = "verify_mistakes"    -> VerifyMistakes
      [] s = "verify_mistakes_v2" -> VerifyMistakesV2
      [] s = "verify_mistakes_v3" -> VerifyMistakesV3
      [] s = "verify_mistakes_v4" -> VerifyMistakesV4
      [] s = "verify_nav"         -> VerifyNav
      [] s = "verify_settings"    -> VerifySettings
      [] OTHER                    -> << >>

----------------------------------------------------------------------------
(* Python's exception semantics over the regions of a script *)

End(S) == Len(S) + 1

HandlerRegions == {"except", "iexcept"}

HasRegion(S, r) == \E i \in 1..Len(S) : S[i].reg = r

First(S, r) == CHOOSE i \in 1..Len(S) :
                  /\ S[i].reg = r
                  /\ \A j \in 1..(i - 1) : S[j].reg # r

\* The except clause that catches an exception raised in region r.
Catcher(r) ==
    CASE r = "itry"    -> "iexcept"
      [] r = "iexcept" -> "except"
      [] r = "try"     -> "except"
      [] OTHER         -> ""

\* The statement that follows statement i when it completes normally: an
\* except clause is entered only by an exception.
NextPc(S, i) ==
    LET later == {j \in (i + 1)..Len(S) :
                     S[j].reg = S[i].reg \/ S[j].reg \notin HandlerRegions}
    IN  IF later = {} THEN End(S)
        ELSE CHOOSE j \in later : \A k \in later : j <= k

\* Normal completion of statement i.  Leaving the finally block with an
\* exception in flight re-raises it out of the entry point.
Advance(S, i, pend) ==
    LET n == NextPc(S, i)
    IN  [pc |-> n, pending |-> pend /\ n # End(S), escaped |-> pend /\ n = End(S)]

\* A failed statement is run again instead of raising.
RaiseRetry(S, i) == [pc |-> i, pending |-> FALSE, escaped |-> FALSE]

\* Statement i raises.
Raise(S, i) ==
    LET r == S[i].reg
        h == Catcher(r)
    IN  IF h # "" /\ HasRegion(S, h)
        THEN [pc |-> First(S, h), pending |-> FALSE, escaped |-> FALSE]
        ELSE IF r \notin {"setup", "finally"} /\ HasRegion(S, "finally")
        THEN [pc |-> First(S, "finally"), pending |-> TRUE, escaped |-> FALSE]
        ELSE [pc |-> End(S), pending |-> FALSE, escaped |-> TRUE]

----------------------------------------------------------------------------
(* The page, the board and the output directory *)

PageOps == {"goto", "wait", "click", "mouse", "bbox", "boxclick",
            "select", "fill", "shot"}

\* Calls that can raise: every page operation, and the acquisition calls.
Fallible == PageOps \cup {"launch", "new_context", "new_page"}

\* Calls after which the application may lay the board out again.
Rerenders == {"goto", "click", "mouse", "boxclick"}

NoBox == << >>

\* Origins the board container can have (it is laid out dynamically).
BoardOrigins == {<<40, 60>>, <<80, 60>>}

InitOrigin == <<40, 60>>

Content == [ui |-> ui, moves |-> moves, theme |-> theme]

NoContent == [ui |-> "none", moves |-> 0, theme |-> ""]

Paths == {Script(s)[i].sel : <<s, i>> \in
             {<<s, i>> \in Scenarios \X (1..30) :
                  i <= Len(Script(s)) /\ Script(s)[i].op = "shot"}}

\* A capture that adds its image beside what is already stored at p.
CaptureKeepOld(files, p, c) ==
    files \cup {[path |-> p, content |-> c]}

\* page.screenshot(path=p): the image is written to p, replacing a file
\* already there.
Capture(files, p, c) ==
    {f \in files : f.path # p} \cup {[path |-> p, content |-> c]}

\* What a successful click on selector s does to the page.
UiAfterClick(s) ==
    CASE s = "button[title='Settings']"      -> "modal"
      [] s = "button[title=\"Settings\"]"    -> "modal"
      [] s = "button:has-text('Done')"       -> "main"
      [] s = "text=Done"                     -> "main"
      [] OTHER                               -> ui

MovesAfter(ins) ==
    CASE ins.op \in {"mouse", "boxclick"} /\ ui = "main" -> moves + 1
      [] ins.op = "click" /\ ins.sel = "text=Prev" /\ moves > 0 -> moves - 1
      [] ins.op = "goto" -> 0
      [] OTHER -> moves

\* A board click that takes its offsets as viewport coordinates.
ClickPointAbsolute(ins) == <<ins.x, ins.y>>

\* The point a mouse click lands on.
ClickPoint(ins) ==
    CASE ins.op = "mouse"    -> <<ins.x, ins.y>>
      [] ins.op = "boxclick" -> <<board_box[1] + ins.x, board_box[2] + ins.y>>
      [] OTHER               -> <<0, 0>>

\* The kind of object a call creates.
Creates(op) ==
    CASE op = "launch"      -> "browser"
      [] op = "new_context" -> "context"
      [] op = "new_page"    -> "page"
      [] OTHER              -> ""

\* Identity of the object of kind k that run r creates: the browser is a
\* child process of the script's process, its context and page live in it.
ObjectId(r, k) ==
    3 * (r - 1) + (CASE k = "browser" -> 1 [] k = "context" -> 2 [] OTHER -> 3)

\* Every run attaches to the browser, context and page of the first run
\* instead of launching its own.
FreshHandleShared(r, k) == ObjectId(1, k)

\* p.chromium.launch() / browser.new_context() / new_page() of run r return
\* a new object.
FreshHandle(r, k) == ObjectId(r, k)

\* The object a call is made on (0: none).
Target(op) ==
    CASE op \in PageOps                              -> ph
      [] op \in {"new_context", "new_page", "close"} -> bh
      [] OTHER                                       -> 0

\* The locals of a process that has not started.
IdleLocals ==
    [phase |-> "idle", scen |-> "", pc |-> 1, pending |-> FALSE,
     escaped |-> FALSE, browser |-> "none", page |-> "none", ui |-> "blank",
     moves |-> 0, theme |-> "light", geom |-> InitOrigin, board_box |-> NoBox,
     printed |-> << >>, trace |-> << >>, rid |-> 0, bh |-> 0, ph |-> 0]

\* The locals of the process in the foreground.
Locals ==
    [phase |-> phase, scen |-> scen, pc |-> pc, pending |-> pending,
     escaped |-> escaped, browser |-> browser, page |-> page, ui |-> ui,
     moves |-> moves, theme |-> theme, geom |-> geom, board_box |-> board_box,
     printed |-> printed, trace |-> trace, rid |-> rid, bh |-> bh, ph |-> ph]

Entry(i, out, at, stale) == [i |-> i, out |-> out, at |-> at, stale |-> stale]

----------------------------------------------------------------------------
(* Actions *)

Init ==
    /\ phase = "idle"
    /\ scen = ""
    /\ pc = 1
    /\ pending = FALSE
    /\ escaped = FALSE
    /\ browser = "none"
    /\ page = "none"
    /\ ui = "blank"
    /\ moves = 0
    /\ theme = "light"
    /\ geom = InitOrigin
    /\ board_box = NoBox
    /\ printed = << >>
    /\ trace = << >>
    /\ fs = {}
    /\ lastCap = [p \in Paths |-> NoContent]
    /\ runs = 0
    /\ rid = 0
    /\ bh = 0
    /\ ph = 0
    /\ handles = {}
    /\ touched = {}
    /\ saved = IdleLocals

\* `python verify_X.py`: a new process runs one script from its first line.
StartRun ==
    /\ phase \in {"idle", "exited"}
    /\ runs < MaxRuns
    /\ \E s \in Scenarios : scen' = s
    /\ phase' = "running"
    /\ pc' = 1
    /\ pending' = FALSE
    /\ escaped' = FALSE
    /\ browser' = "none"
    /\ page' = "none"
    /\ ui' = "blank"
    /\ moves' = 0
    /\ theme' = "light"
    /\ geom' = InitOrigin
    /\ board_box' = NoBox
    /\ printed' = << >>
    /\ trace' = << >>
    /\ runs' = runs + 1
    /\ rid' = runs + 1
    /\ bh' = 0
    /\ ph' = 0
    /\ UNCHANGED <<fs, lastCap, handles, touched, saved>>

\* The statement at pc completes normally.
StepOk ==
    /\ phase = "running"
    /\ pc <= Len(Script(scen))
    /\ LET S   == Script(scen)
           ins == S[pc]
           nxt == Advance(S, pc, pending)
       IN  /\ ~(ins.ifbox /\ board_box = NoBox)
           /\ ins.op \in PageOps => page = "open"
           /\ ins.op \in {"new_context", "new_page"} => browser = "open"
           /\ pc' = nxt.pc
           /\ pending' = nxt.pending
           /\ escaped' = nxt.escaped
           /\ browser' = CASE ins.op = "launch" -> "open"
                           [] ins.op = "close"  -> "closed"
                           [] OTHER             -> browser
           /\ page' = CASE ins.op = "new_page" -> "open"
                        [] ins.op = "close"    -> "closed"
                        [] OTHER               -> page
           /\ ui' = CASE ins.op = "goto"  -> "main"
                      [] ins.op = "click" -> UiAfterClick(ins.sel)
                      [] OTHER            -> ui
           /\ moves' = MovesAfter(ins)
           /\ theme' = IF ins.op = "select" THEN ins.val ELSE theme
           /\ IF ins.op \in Rerenders
              THEN geom' \in BoardOrigins
              ELSE geom' = geom
           /\ IF ins.op = "bbox"
              THEN board_box' \in {NoBox, geom}
              ELSE board_box' = board_box
           /\ printed' = IF ins.op = "print" THEN Append(printed, ins.val)
                         ELSE printed
           /\ IF ins.op = "shot"
              THEN /\ fs' = Capture(fs, ins.sel, Content)
                   /\ lastCap' = [lastCap EXCEPT ![ins.sel] = Content]
              ELSE UNCHANGED <<fs, lastCap>>
           /\ trace' = Append(trace,
                  Entry(pc, "ok", ClickPoint(ins),
                        ins.op = "boxclick" /\ board_box # geom))
           /\ handles' = IF Creates(ins.op) # ""
                         THEN handles \cup
                              {[id |-> FreshHandle(rid, Creates(ins.op)),
                                kind |-> Creates(ins.op), owner |-> rid]}
                         ELSE handles
           /\ bh' = IF ins.op = "launch" THEN FreshHandle(rid, "browser") ELSE bh
           /\ ph' = IF ins.op = "new_page" THEN FreshHandle(rid, "page") ELSE ph
           /\ touched' = IF Target(ins.op) # 0
                         THEN touched \cup {<<rid, Target(ins.op)>>}
                         ELSE touched
    /\ UNCHANGED <<phase, scen, runs, rid, saved>>

\* The statement at pc raises (navigation error, timeout, element missing,
\* target closed, file not writable): control goes where Python takes it.
StepFail ==
    /\ phase = "running"
    /\ pc <= Len(Script(scen))
    /\ LET S   == Script(scen)
           ins == S[pc]
           nxt == Raise(S, pc)
       IN  /\ ~(ins.ifbox /\ board_box = NoBox)
           /\ ins.op \in Fallible
           /\ pc' = nxt.pc
           /\ pending' = nxt.pending
           /\ escaped' = nxt.escaped
           /\ trace' = Append(trace, Entry(pc, "fail", <<0, 0>>, FALSE))
           /\ touched' = IF Target(ins.op) # 0
                         THEN touched \cup {<<rid, Target(ins.op)>>}
                         ELSE touched
    /\ UNCHANGED <<phase, scen, browser, page, ui, moves, theme, geom,
                   board_box, printed, fs, lastCap, runs,
                   rid, bh, ph, handles, saved>>

\* verify_nav.py:30, `if board_box:` is false: the three clicks and their
\* pauses are skipped.
SkipBoardClicks ==
    /\ phase = "running"
    /\ pc <= Len(Script(scen))
    /\ LET S == Script(scen)
       IN  /\ S[pc].ifbox
           /\ board_box = NoBox
           /\ pc' = CHOOSE j \in pc..Len(S) :
                       /\ ~S[j].ifbox
                       /\ \A k \in pc..(j - 1) : S[k].ifbox
    /\ UNCHANGED <<phase, scen, pending, escaped, browser, page, ui, moves,
                   theme, geom, board_box, printed, trace, fs, lastCap, runs,
                   rid, bh, ph, handles, touched, saved>>

\* The `with sync_playwright()` block is left and the process ends.
WithExit ==
    /\ phase = "running"
    /\ pc = End(Script(scen))
    /\ phase' = "exited"
    /\ UNCHANGED <<scen, pc, pending, escaped, browser, page, ui, moves,
                   theme, geom, board_box, printed, trace, fs, lastCap, runs,
                   rid, bh, ph, handles, touched, saved>>

Next == StartRun \/ StepOk \/ StepFail \/ SkipBoardClicks \/ WithExit

Spec == Init /\ [][Next]_vars

\* Two script processes run at the same time.  The operating system runs
\* one of them at a time and may switch between them before any statement:
\* the locals of the two processes change places.
Switch ==
    /\ saved # Locals
    /\ saved' = Locals
    /\ phase' = saved.phase
    /\ scen' = saved.scen
    /\ pc' = saved.pc
    /\ pending' = saved.pending
    /\ escaped' = saved.escaped
    /\ browser' = saved.browser
    /\ page' = saved.page
    /\ ui' = saved.ui
    /\ moves' = saved.moves
    /\ theme' = saved.theme
    /\ geom' = saved.geom
    /\ board_box' = saved.board_box
    /\ printed' = saved.printed
    /\ trace' = saved.trace
    /\ rid' = saved.rid
    /\ bh' = saved.bh
    /\ ph' = saved.ph
    /\ UNCHANGED <<fs, lastCap, runs, handles, touched>>

\* Each of the two processes runs one script.
StartProcess == StartRun /\ phase = "idle"

NextConc ==
    StartProcess \/ StepOk \/ StepFail \/ SkipBoardClicks \/ WithExit \/ Switch

SpecConc == Init /\ [][NextConc]_vars

TypeOK ==
    /\ phase \in {"idle", "running", "exited"}
    /\ scen \in Scenarios \cup {""}
    /\ pc \in 1..31
    /\ browser \in {"none", "open", "closed"}
    /\ page \in {"none", "open", "closed"}
    /\ ui \in {"blank", "main", "modal"}
    /\ moves \in 0..10
    /\ geom \in BoardOrigins
    /\ board_box \in BoardOrigins \cup {NoBox}
    /\ runs \in 0..MaxRuns

----------------------------------------------------------------------------
(* Vocabulary of the properties *)

Idx == 1..Len(trace)

\* The statement the k-th executed entry of the run belongs to.
T(k) == Script(scen)[trace[k].i]

Ended == phase = "exited"

\* A scenario step (page operation outside an except clause) raised.
StepFailedAt(k) ==
    /\ trace[k].out = "fail"
    /\ T(k).op \in PageOps
    /\ T(k).reg \notin HandlerRegions

StepFailed == \E k \in Idx : StepFailedAt(k)

\* launch / new_context / new_page raised: no session was acquired.
AcquireFailed ==
    \E k \in Idx : trace[k].out = "fail" /\ T(k).op \notin PageOps

\* The diagnostic capture of an except clause was attempted / raised.
DiagAt(k) == T(k).op = "shot" /\ T(k).reg \in HandlerRegions

DiagFailed == \E k \in Idx : DiagAt(k) /\ trace[k].out = "fail"

ClosedAt(k) == T(k).op = "close" /\ trace[k].out = "ok"

Closes == Cardinality({k \in Idx : ClosedAt(k)})

\* Artifact files written by the run.
Written == {T(k).sel : k \in {j \in Idx : T(j).op = "shot" /\ trace[j].out = "ok"}}

WrittenCount == Cardinality({k \in Idx : T(k).op = "shot" /\ trace[k].out = "ok"})

Completed == Ended /\ ~escaped /\ \A k \in Idx : trace[k].out # "fail"

Failed == Ended /\ \E k \in Idx : trace[k].out = "fail"

----------------------------------------------------------------------------
(* C1 *)

\* C1: in every script, whichever way a run with an acquired session ends
\* (every step succeeded, a step failed, an exception escaped),
\* browser.close() has been executed exactly once when the run has ended.
C1_TeardownExactlyOnce ==
    (Ended /\ ~AcquireFailed) => Closes = 1

----------------------------------------------------------------------------
(* C2 *)

\* C2: in every script, a failure of any step is caught at the scenario
\* boundary: no exception escapes the entry point, so the process exits 0
\* whether the run completed or failed.
C2_NoExceptionEscapes ==
    (Ended /\ ~AcquireFailed) => ~escaped

----------------------------------------------------------------------------
(* C3 *)

\* C3: in every script, when a step has failed, a diagnostic screenshot is
\* attempted after the failure and before the browser is closed.
C3_DiagnosticAfterFailure ==
    Ended =>
        \A f \in Idx : StepFailedAt(f) =>
            \E d \in Idx : /\ f < d
                           /\ DiagAt(d)
                           /\ \A c \in Idx : ClosedAt(c) => d < c

----------------------------------------------------------------------------
(* C4 *)

\* C4: recording a failure never re-raises: when the diagnostic screenshot
\* of the failure handler fails, nothing propagates out of the scenario, and
\* the run ends Failed with the browser closed and the error already printed.
C4_RecordFailureNeverRaises ==
    (Ended /\ DiagFailed) =>
        /\ ~escaped
        /\ Failed
        /\ Closes = 1
        /\ \E m \in 1..Len(printed) : printed[m] = "Error"

----------------------------------------------------------------------------
(* C5 *)

\* C5: in every script, every operation on the page (the diagnostic
\* screenshot of the failure handler included) is issued after the page was
\* acquired and before browser.close(): no page operation is issued on a
\* released session.
C5_PageOpsInsideSession ==
    \A k \in Idx : T(k).op \in PageOps =>
        /\ \E a \in 1..(k - 1) : T(a).op = "new_page" /\ trace[a].out = "ok"
        /\ \A c \in 1..(k - 1) : ~ClosedAt(c)

\* A failed run of verify_mistakes_v3 has ended: the handler took its
\* diagnostic screenshot and the finally block then closed the browser.
C5_Witness ==
    /\ Ended
    /\ scen = "verify_mistakes_v3"
    /\ \E d \in Idx : DiagAt(d) /\ \E c \in Idx : c > d /\ ClosedAt(c)

----------------------------------------------------------------------------
(* C6 *)

\* Calls that target an element by selector.
ElementActions == {"click", "select", "fill"}

\* Calls after which new UI appears (page load, overlay opened or closed).
UiChanges == {"goto", "click"}

\* The executed statement before k that is not a pause, a capture or a print.
Before(k) ==
    LET prior == {j \in 1..(k - 1) : T(j).op \notin {"sleep", "shot", "print"}}
    IN  IF prior = {} THEN 0 ELSE CHOOSE j \in prior : \A m \in prior : m <= j

\* C6: in every script, an element-targeted action that follows a
\* navigation or a UI change is preceded by a readiness wait for that UI,
\* not by a fixed pause or by nothing.
C6_WaitBeforeFreshUi ==
    \A k \in Idx : T(k).op \in ElementActions =>
        (Before(k) # 0 => T(Before(k)).op \notin UiChanges)

----------------------------------------------------------------------------
(* C7 *)

\* C7: every coordinate click relative to an element uses a bounding box
\* resolved immediately before that click, so no click uses the geometry of
\* a layout that has since been replaced.
C7_BoxResolvedBeforeEachClick ==
    \A k \in Idx : (T(k).op = "boxclick" /\ trace[k].out = "ok") =>
        /\ Before(k) # 0
        /\ T(Before(k)).op = "bbox"
        /\ ~trace[k].stale

----------------------------------------------------------------------------
(* C8 *)

\* What a step is: the call, its target, its payload, its timeout in ms
\* (0: none given) and its coordinates.
Sig(ins) == <<ins.op, ins.sel, ins.val, ins.to, ins.x, ins.y>>

\* The step sequence of the run: the executed page operations and pauses.
StepOps == PageOps \cup {"sleep"}

RECURSIVE StepsUpTo(_)
StepsUpTo(n) ==
    IF n = 0 THEN << >>
    ELSE IF T(n).op \in StepOps
         THEN Append(StepsUpTo(n - 1), Sig(T(n)))
         ELSE StepsUpTo(n - 1)

Steps == StepsUpTo(Len(trace))

SettingsPng == "/home/jules/verification/settings_verification.png"

\* The sequence as the specification states it.
SettingsStepsAsStated == <<
    <<"goto", URL, "", 0, 0, 0>>,
    <<"wait", "button[title=\"Settings\"]", "", 10000, 0, 0>>,
    <<"click", "button[title=\"Settings\"]", "", 0, 0, 0>>,
    <<"wait", "text=Board Theme", "", 5000, 0, 0>>,
    <<"select", "select", "dark", 0, 0, 0>>,
    <<"click", "text=Done", "", 0, 0, 0>>,
    <<"shot", SettingsPng, "", 0, 0, 0>> >>

\* The sequence verify_settings.py executes.
SettingsStepsAsCoded == <<
    <<"goto", URL, "", 0, 0, 0>>,
    <<"wait", "text=Ka", "", 10000, 0, 0>>,
    <<"click", "button[title=\"Settings\"]", "", 0, 0, 0>>,
    <<"wait", "text=Board Theme", "", 0, 0, 0>>,
    <<"select", "select", "dark", 0, 0, 0>>,
    <<"fill", "input[type=\"range\"]", "5", 0, 0, 0>>,
    <<"click", "text=Done", "", 0, 0, 0>>,
    <<"mouse", "", "", 0, 500, 300>>,
    <<"sleep", "", "", 500, 0, 0>>,
    <<"mouse", "", "", 0, 550, 300>>,
    <<"sleep", "", "", 500, 0, 0>>,
    <<"shot", SettingsPng, "", 0, 0, 0>> >>

SettingsAllOk ==
    /\ Ended
    /\ scen = "verify_settings"
    /\ \A k \in Idx : trace[k].out = "ok"

\* C8 as stated: the settings scenario, when every step succeeds, executes
\* exactly navigate, wait (10000 ms) for title="Settings", click it, wait
\* (5000 ms) for "Board Theme", select "dark", click "Done", capture; it
\* ends Completed with exactly one artifact written.
C8_AsStated ==
    SettingsAllOk =>
        /\ Steps = SettingsStepsAsStated
        /\ Completed
        /\ WrittenCount = 1

\* C8 amended: the settings scenario, when every step succeeds, executes
\* exactly navigate, wait (10000 ms) for text "Ka", click
\* button[title="Settings"], wait (no timeout given) for "Board Theme",
\* select "dark", fill the range input with "5", click "Done", click at
\* (500,300), pause, click at (550,300), pause, capture
\* settings_verification.png; it ends Completed with exactly one artifact
\* written.
C8_SettingsSequence ==
    SettingsAllOk =>
        /\ Steps = SettingsStepsAsCoded
        /\ Completed
        /\ WrittenCount = 1
        /\ Written = {SettingsPng}
        /\ \E f \in fs : f.path = SettingsPng

C8_Witness ==
    /\ SettingsAllOk
    /\ Len(trace) = Len(VerifySettings) - 2
    /\ printed = <<"Screenshot taken">>

----------------------------------------------------------------------------
(* C9 *)

NavigateFailed == \E k \in Idx : T(k).op = "goto" /\ trace[k].out = "fail"

\* C9: in every script, a run whose navigate step fails ends Failed with
\* exactly one artifact written in that run, the diagnostic one, and with
\* no unhandled exception leaving the process.
C9_NavigateFailure ==
    (Ended /\ NavigateFailed) =>
        /\ Failed
        /\ ~escaped
        /\ WrittenCount = 1
        /\ \E d \in Idx : DiagAt(d) /\ trace[d].out = "ok"

----------------------------------------------------------------------------
(* C10 *)

FilesAt(p) == {f \in fs : f.path = p}

----------------------------------------------------------------------------
(* C12 *)

\* Statements of a script that normal control flow may pass over between
\* two executed statements: except clauses, and the body of `if board_box`.
PassedOver(s) == s.reg \in HandlerRegions \/ s.ifbox

\* C12: in every script the steps run strictly in script order, each at
\* most once (a failed step is not retried), none is left out on the way,
\* and once a step has failed no later scenario step is executed: only the
\* except clause (failure recording) and the finally block (teardown)
\* follow.
C12_InOrderNoRetry ==
    /\ \A j, k \in Idx : j < k => trace[j].i < trace[k].i
    /\ \A k \in Idx : k > 1 /\ trace[k - 1].out = "ok" =>
          \A m \in (trace[k - 1].i + 1)..(trace[k].i - 1) :
              PassedOver(Script(scen)[m])
    /\ \A f, k \in Idx : (StepFailedAt(f) /\ f < k) =>
          T(k).reg \in HandlerRegions \cup {"finally"}

\* A verify_settings run has ended in which a step after the navigation
\* failed: the error was printed and the browser closed, nothing else ran.
C12_Witness ==
    /\ Ended
    /\ scen = "verify_settings"
    /\ \E f \in Idx : /\ f > 3
                      /\ StepFailedAt(f)
                      /\ Len(trace) = f + 2
                      /\ T(f + 1).op = "print"
                      /\ ClosedAt(f + 2)

----------------------------------------------------------------------------
(* C14 *)

\* The board clicks of the run that were issued, in order.
RECURSIVE BoardClicksUpTo(_)
BoardClicksUpTo(n) ==
    IF n = 0 THEN << >>
    ELSE IF T(n).op = "boxclick" /\ trace[n].out = "ok"
         THEN Append(BoardClicksUpTo(n - 1), trace[n].at)
         ELSE BoardClicksUpTo(n - 1)

BoardClicks == BoardClicksUpTo(Len(trace))

\* The three points of verify_nav.py:32, 36, 40 for a box with origin b.
BoardPoints(b) == << <<b[1] + 100, b[2] + 100>>,
                     <<b[1] + 200, b[2] + 100>>,
                     <<b[1] + 100, b[2] + 200>> >>

BoxResolvedAt(k) == T(k).op = "bbox" /\ trace[k].out = "ok"

NavAllOk ==
    /\ Ended
    /\ scen = "verify_nav"
    /\ \A k \in Idx : trace[k].out = "ok"

\* C14: in verify_navigation the board clicks are issued only when the
\* bounding box was resolved, at (x+100,y+100), (x+200,y+100), (x+100,y+200)
\* from the box origin, in that order; when the box is empty the three
\* clicks are skipped with no failure recorded and the run goes on to click
\* 'Prev' and capture verification.png, ending Completed with no move played.
C14_BoardClicks ==
    scen = "verify_nav" =>
        /\ \A k \in Idx : T(k).op = "boxclick" =>
              /\ board_box # NoBox
              /\ \E b \in 1..(k - 1) : BoxResolvedAt(b)
        /\ board_box # NoBox =>
              /\ Len(BoardClicks) <= 3
              /\ BoardClicks = SubSeq(BoardPoints(board_box), 1, Len(BoardClicks))
        /\ board_box = NoBox => BoardClicks = << >>
        /\ \A b \in Idx : (BoxResolvedAt(b) /\ board_box = NoBox /\ b < Len(trace)) =>
              /\ T(b + 1).op = "click"
              /\ T(b + 1).sel = "text=Prev"
        /\ (NavAllOk /\ board_box # NoBox) => Len(BoardClicks) = 3
        /\ (NavAllOk /\ board_box = NoBox) =>
              /\ Completed
              /\ moves = 0
              /\ printed = <<"Screenshot taken">>
              /\ Written = {"verification/verification.png"}
              /\ \E k \in Idx : T(k).sel = "text=Prev" /\ trace[k].out = "ok"

\* A verify_navigation run has ended Completed although bounding_box()
\* returned None: no stone was played, verification.png was written.
C14_Witness ==
    /\ NavAllOk
    /\ Completed
    /\ board_box = NoBox
    /\ \E b \in Idx : BoxResolvedAt(b)
    /\ moves = 0
    /\ \E f \in fs : f.path = "verification/verification.png"

\* A verify_navigation run has ended Completed with the three board clicks
\* issued.
C14_ClicksIssued ==
    NavAllOk /\ Len(BoardClicks) = 3

----------------------------------------------------------------------------
(* C15 *)

ErrorMessage(s) ==
    IF s = "verify_settings" THEN "Error in verify_settings" ELSE "Error"

----------------------------------------------------------------------------
(* C13 *)

\* One step of the running script.
Step == StepOk \/ StepFail \/ SkipBoardClicks \/ WithExit

\* Every Playwright call returns or raises within its timeout, and a pause
\* ends: a running script always takes its next step.
SpecFair == Spec /\ WF_vars(Step)

\* Every run eventually ends.
RunTerminates ==
    \A n \in 1..MaxRuns :
        (phase = "running" /\ runs = n) ~> (Ended /\ runs = n)

\* C13: every run eventually reaches a terminal state and its teardown
\* (browser.close() of the acquired session): no run stays Running forever.
C13_TerminatesWithTeardown ==
    \A n \in 1..MaxRuns :
        (phase = "running" /\ runs = n) ~>
            (Ended /\ runs = n /\ (AcquireFailed \/ Closes = 1))

----------------------------------------------------------------------------
(* C11 *)

\* The objects of kind k that run r has created.
Owned(r, k) == {h \in handles : h.owner = r /\ h.kind = k}

\* The process with locals L holds exactly the browser and the page its own
\* run created, and none before it created them.
OwnSession(L) ==
    L.rid # 0 =>
        /\ Owned(L.rid, "browser") =
              IF L.browser = "none" THEN {}
              ELSE {[id |-> L.bh, kind |-> "browser", owner |-> L.rid]}
        /\ Owned(L.rid, "page") =
              IF L.page = "none" THEN {}
              ELSE {[id |-> L.ph, kind |-> "page", owner |-> L.rid]}

====
